---- MODULE Spec2Model ----
(***************************************************************************)
(* Model of cel-interpreter/src/value.rs: the CelValue tagged union, the   *)
(* CelKey / CelMap container, and the conversions literal -> CelValue,     *)
(* native <-> CelValue and CelValue -> serde_json::Value.                  *)
(*                                                                         *)
(* Text is a sequence of one-character strings, so that formatting and     *)
(* parsing are computed.  A Decimal is [m |-> mantissa, s |-> scale],      *)
(* a NaiveDate is [y, mo, d], a Uuid is its 32 hexadecimal nibbles.        *)
(* Every CelValue / CelKey / JSON node is a record with the same fields,   *)
(* the fields a variant does not use holding a fixed default.              *)
(***************************************************************************)
EXTENDS Integers, Sequences, FiniteSets, TLC

VARIABLES inner, owned, hist, val, lifted, out

vars == <<inner, owned, hist, val, lifted, out>>

\* ------------------------------------------------------------------ bounds

\* Map entries alive at once (builder plus current value, nested ones counted).
MaxEntries == 3

\* ------------------------------------------------------------------- texts

T_age == <<"a", "g", "e">>
T_name == <<"n", "a", "m", "e">>
T_Ada == <<"A", "d", "a">>
T_missing == <<"m", "i", "s", "s", "i", "n", "g">>
T_one == <<"1">>
T_1999 == <<"1", "9", ".", "9", "9">>
T_neg05 == <<"-", "0", ".", "5">>
T_1e5 == <<"1", "e", "5">>
T_empty == <<>>

DigitChars == <<"0", "1", "2", "3", "4", "5", "6", "7", "8", "9">>
HexChars == DigitChars \o <<"a", "b", "c", "d", "e", "f">>

\* Decimal digits of a natural number, most significant first.
RECURSIVE NatToText(_)
NatToText(n) ==
    IF n < 10 THEN <<DigitChars[n + 1]>>
    ELSE NatToText(n \div 10) \o <<DigitChars[(n % 10) + 1]>>

\* n zeros.
Zeros(n) == [i \in 1..n |-> "0"]

\* Left-pad a text with zeros to at least w characters.
PadLeft(t, w) == IF Len(t) >= w THEN t ELSE Zeros(w - Len(t)) \o t

Abs(n) == IF n < 0 THEN -n ELSE n

RECURSIVE Pow10(_)
Pow10(k) == IF k = 0 THEN 1 ELSE 10 * Pow10(k - 1)

\* ---------------------------------------------------------------- payloads

Dec(m, s) == [m |-> m, s |-> s]
NoDec == Dec(0, 0)
NaiveDate(y, mo, d) == [y |-> y, mo |-> mo, d |-> d]
NoDate == NaiveDate(0, 0, 0)
NoUuid == <<>>
NoEntries == {}

\* rust_decimal compares numerically: 1.0 == 1.00.
DecEq(a, b) == a.m * Pow10(b.s) = b.m * Pow10(a.s)

\* Decimal::from(i64) / Decimal::from(u64): the integer at scale 0.
DecimalFromInt(n) == Dec(n, 0)

\* Display of Decimal: sign, then the mantissa's digits padded to scale+1
\* digits, a point before the last `scale` digits.
DecimalToString(d) ==
    LET digits == PadLeft(NatToText(Abs(d.m)), d.s + 1)
        ip == SubSeq(digits, 1, Len(digits) - d.s)
        fp == SubSeq(digits, Len(digits) - d.s + 1, Len(digits))
        body == IF d.s = 0 THEN ip ELSE ip \o <<".">> \o fp
    IN  IF d.m < 0 THEN <<"-">> \o body ELSE body

\* Display of NaiveDate (years 0..9999): YYYY-MM-DD.
DateToString(d) ==
    PadLeft(NatToText(d.y), 4) \o <<"-">> \o PadLeft(NatToText(d.mo), 2)
        \o <<"-">> \o PadLeft(NatToText(d.d), 2)

\* Display of Uuid: lowercase hexadecimal, hyphenated 8-4-4-4-12.
UuidToString(u) ==
    LET hex(i, j) == [x \in 1..(j - i + 1) |-> HexChars[u[i + x - 1] + 1]]
    IN  hex(1, 8) \o <<"-">> \o hex(9, 12) \o <<"-">> \o hex(13, 16)
            \o <<"-">> \o hex(17, 20) \o <<"-">> \o hex(21, 32)

\* ----------------------------------------------------------------- results

Ok(x) == [kind |-> "Ok", val |-> x]
BadType(expected, actual) == [kind |-> "Err", expected |-> expected, actual |-> actual]
Panic(msg) == [kind |-> "Panic", msg |-> msg]
IsOk(r) == r.kind = "Ok"
IsErr(r) == r.kind = "Err"
IsPanic(r) == r.kind = "Panic"

\* ---------------------------------------------------------------- CelValue

CelValue(tag, n, d, t, by, b, dt, u, m) ==
    [tag |-> tag, n |-> n, d |-> d, t |-> t, by |-> by, b |-> b,
     dt |-> dt, u |-> u, m |-> m]

ValMap(m) == CelValue("Map", 0, NoDec, <<>>, <<>>, FALSE, NoDate, NoUuid, m)
ValInt(n) == CelValue("Int", n, NoDec, <<>>, <<>>, FALSE, NoDate, NoUuid, NoEntries)
ValUInt(n) == CelValue("UInt", n, NoDec, <<>>, <<>>, FALSE, NoDate, NoUuid, NoEntries)
ValDouble(d) == CelValue("Double", 0, d, <<>>, <<>>, FALSE, NoDate, NoUuid, NoEntries)
ValString(t) == CelValue("String", 0, NoDec, t, <<>>, FALSE, NoDate, NoUuid, NoEntries)
ValBytes(by) == CelValue("Bytes", 0, NoDec, <<>>, by, FALSE, NoDate, NoUuid, NoEntries)
ValBool(b) == CelValue("Bool", 0, NoDec, <<>>, <<>>, b, NoDate, NoUuid, NoEntries)
ValNull == CelValue("Null", 0, NoDec, <<>>, <<>>, FALSE, NoDate, NoUuid, NoEntries)
ValDate(dt) == CelValue("Date", 0, NoDec, <<>>, <<>>, FALSE, dt, NoUuid, NoEntries)
ValUuid(u) == CelValue("Uuid", 0, NoDec, <<>>, <<>>, FALSE, NoDate, u, NoEntries)

\* ------------------------------------------------------------------ CelKey

CelKey(tag, n, b, t) == [tag |-> tag, n |-> n, b |-> b, t |-> t]

KeyInt(n) == CelKey("Int", n, FALSE, <<>>)
KeyUInt(n) == CelKey("UInt", n, FALSE, <<>>)
KeyBool(b) == CelKey("Bool", 0, b, <<>>)
KeyString(t) == CelKey("String", 0, FALSE, t)

\* From<&str> for CelKey.
KeyFromStr(s) == KeyString(s)

\* The bug of comparing integer keys by number across Int and UInt.
CelKeyEq_NumberAcrossVariants(a, b) ==
    IF a.tag \in {"Int", "UInt"} /\ b.tag \in {"Int", "UInt"} THEN a.n = b.n
    ELSE a = b

\* derive(PartialEq, Eq) on CelKey: same variant, equal payload.
CelKeyEq(a, b) ==
    /\ a.tag = b.tag
    /\ CASE a.tag = "Int" -> a.n = b.n
         [] a.tag = "UInt" -> a.n = b.n
         [] a.tag = "Bool" -> a.b = b.b
         [] a.tag = "String" -> a.t = b.t

\* ----------------------------------------------------------------- CelType

\* From<&CelValue> for CelType.
CelTypeOfValue(v) ==
    CASE v.tag = "Map" -> "Map"
      [] v.tag = "Int" -> "Int"
      [] v.tag = "UInt" -> "UInt"
      [] v.tag = "Double" -> "Double"
      [] v.tag = "String" -> "String"
      [] v.tag = "Bytes" -> "Bytes"
      [] v.tag = "Bool" -> "Bool"
      [] v.tag = "Null" -> "Null"
      [] v.tag = "Date" -> "Date"
      [] v.tag = "Uuid" -> "Uuid"

\* From<&CelKey> for CelType.
CelTypeOfKey(k) ==
    CASE k.tag = "Int" -> "Int"
      [] k.tag = "UInt" -> "UInt"
      [] k.tag = "Bool" -> "Bool"
      [] k.tag = "String" -> "String"

\* ------------------------------------------------------------------ CelMap

Entry(k, v) == [k |-> k, v |-> v]

\* CelMap::new: an empty HashMap.
CelMapNew == NoEntries

\* The bug of entry(k).or_insert(v): an existing entry is kept.
CelMapInsert_KeepFirst(m, k, v) ==
    IF \E e \in m : e.k.tag = k.tag /\ e.k = k THEN m ELSE m \cup {Entry(k, v)}

\* CelMap::insert: HashMap::insert replaces the entry whose key is equal.
CelMapInsert(m, k, v) == {e \in m : ~CelKeyEq(e.k, k)} \cup {Entry(k, v)}

\* CelMap::get: the stored value cloned, or Null.
CelMapGet(m, k) ==
    IF \E e \in m : CelKeyEq(e.k, k)
    THEN (CHOOSE e \in m : CelKeyEq(e.k, k)).v
    ELSE ValNull

\* From<CelMap> for CelValue.
FromCelMap(m) == ValMap(m)

\* derive(PartialEq) on CelValue and CelMap: same variant and equal payload;
\* HashMap equality is same length and every entry found equal in the other.
RECURSIVE CelValueEq(_, _)
CelValueEq(a, b) ==
    /\ a.tag = b.tag
    /\ CASE a.tag = "Map" ->
              /\ Cardinality(a.m) = Cardinality(b.m)
              /\ \A e \in a.m :
                    \E f \in b.m : CelKeyEq(e.k, f.k) /\ CelValueEq(e.v, f.v)
         [] a.tag = "Int" -> a.n = b.n
         [] a.tag = "UInt" -> a.n = b.n
         [] a.tag = "Double" -> DecEq(a.d, b.d)
         [] a.tag = "String" -> a.t = b.t
         [] a.tag = "Bytes" -> a.by = b.by
         [] a.tag = "Bool" -> a.b = b.b
         [] a.tag = "Null" -> TRUE
         [] a.tag = "Date" -> a.dt = b.dt
         [] a.tag = "Uuid" -> a.u = b.u

\* Number of map entries a value holds, nested ones included.
RECURSIVE Size(_)
RECURSIVE SizeOfEntries(_)
SizeOfEntries(m) ==
    IF m = {} THEN 0
    ELSE LET e == CHOOSE x \in m : TRUE
         IN  1 + Size(e.v) + SizeOfEntries(m \ {e})
Size(v) == IF v.tag = "Map" THEN SizeOfEntries(v.m) ELSE 0

\* ------------------------------------------------------------- native lifts

\* The bug of lifting through an unsigned conversion: the sign is lost.
FromI64_Unsigned(i) == ValInt(Abs(i))

\* From<i64> for CelValue.
FromI64(i) == ValInt(i)

\* From<Decimal> for CelValue.
FromDecimal(d) == ValDouble(d)

\* From<NaiveDate> for CelValue.
FromNaiveDate(d) == ValDate(d)

\* From<&str> for CelValue.
FromStr(s) == ValString(s)

\* -------------------------------------------------------------- extractions

\* CelValue::try_bool.
TryBool(v) ==
    IF v.tag = "Bool" THEN Ok(v.b) ELSE BadType("Bool", CelTypeOfValue(v))

\* TryFrom<&CelValue> for Rc<String>.
TryIntoRcString(v) ==
    IF v.tag = "String" THEN Ok(v.t) ELSE BadType("String", CelTypeOfValue(v))

\* TryFrom<CelValue> for NaiveDate.
TryIntoNaiveDate(v) ==
    IF v.tag = "Date" THEN Ok(v.dt) ELSE BadType("Date", CelTypeOfValue(v))

\* The copy-and-paste bug: the Uuid extraction reports the Date tag.
TryIntoUuid_DateTag(v) ==
    IF v.tag = "Uuid" THEN Ok(v.u) ELSE BadType("Date", CelTypeOfValue(v))

\* TryFrom<CelValue> for Uuid.
TryIntoUuid(v) ==
    IF v.tag = "Uuid" THEN Ok(v.u) ELSE BadType("Uuid", CelTypeOfValue(v))

\* TryFrom<CelValue> for String.
TryIntoString(v) ==
    IF v.tag = "String" THEN Ok(v.t) ELSE BadType("String", CelTypeOfValue(v))

\* The bug of a missing UInt arm: an unsigned integer is refused.
TryIntoDecimal_NoUInt(v) ==
    CASE v.tag = "Double" -> Ok(v.d)
      [] v.tag = "Int" -> Ok(DecimalFromInt(v.n))
      [] OTHER -> BadType("Double", CelTypeOfValue(v))

\* TryFrom<CelValue> for Decimal.
TryIntoDecimal(v) ==
    CASE v.tag = "Double" -> Ok(v.d)
      [] v.tag = "Int" -> Ok(DecimalFromInt(v.n))
      [] v.tag = "UInt" -> Ok(DecimalFromInt(v.n))
      [] OTHER -> BadType("Double", CelTypeOfValue(v))

\* Integer extraction, which value.rs does not define: as the specification
\* states it, only the Int variant yields an integer.
TryIntoI64(v) ==
    IF v.tag = "Int" THEN Ok(v.n) ELSE BadType("Int", CelTypeOfValue(v))

\* TryFrom<&CelKey> for String.
KeyTryIntoString(k) ==
    IF k.tag = "String" THEN Ok(k.t) ELSE BadType("String", CelTypeOfKey(k))

\* --------------------------------------------------------- serde_json::Value

Json(jt, n, b, s, o) == [jt |-> jt, n |-> n, b |-> b, s |-> s, o |-> o]

EmptyObject == [x \in {} |-> 0]
JNull == Json("Null", 0, FALSE, <<>>, EmptyObject)
JNumber(n) == Json("Number", n, FALSE, <<>>, EmptyObject)
JBool(b) == Json("Bool", 0, b, <<>>, EmptyObject)
JString(s) == Json("String", 0, FALSE, s, EmptyObject)
JObject(o) == Json("Object", 0, FALSE, <<>>, o)

\* serde_json::Map::insert: the member is added or replaced.
ObjectInsert(o, key, value) ==
    [x \in DOMAIN o \cup {key} |-> IF x = key THEN value ELSE o[x]]

\* TryFrom<CelValue> for serde_json::Value.  The result is the set of
\* outcomes the call can have: a HashMap iterates in an unspecified order,
\* and the first entry that fails decides the outcome.
RECURSIVE TryIntoJson(_)
RECURSIVE LowerEntries(_, _)
LowerEntries(rest, res) ==
    IF rest = {} THEN {Ok(JObject(res))}
    ELSE UNION {
           LET key == KeyTryIntoString(e.k)
           IN  IF ~IsOk(key) THEN {key}
               ELSE UNION {
                      IF IsOk(value)
                      THEN LowerEntries(rest \ {e},
                                        ObjectInsert(res, key.val, value.val))
                      ELSE {value} : value \in TryIntoJson(e.v) }
           : e \in rest }
\* The bug of lowering a Double to a JSON number: the fraction is lost.
TryIntoJson_DoubleAsNumber(v) ==
    CASE v.tag = "Int" -> {Ok(JNumber(v.n))}
      [] v.tag = "UInt" -> {Ok(JNumber(v.n))}
      [] v.tag = "Double" -> {Ok(JNumber(v.d.m \div Pow10(v.d.s)))}
      [] v.tag = "Bool" -> {Ok(JBool(v.b))}
      [] v.tag = "String" -> {Ok(JString(v.t))}
      [] v.tag = "Null" -> {Ok(JNull)}
      [] v.tag = "Date" -> {Ok(JString(DateToString(v.dt)))}
      [] v.tag = "Uuid" -> {Ok(JString(UuidToString(v.u)))}
      [] v.tag = "Map" -> LowerEntries(v.m, EmptyObject)
      [] OTHER -> {Panic("not implemented")}

TryIntoJson(v) ==
    CASE v.tag = "Int" -> {Ok(JNumber(v.n))}
      [] v.tag = "UInt" -> {Ok(JNumber(v.n))}
      [] v.tag = "Double" -> {Ok(JString(DecimalToString(v.d)))}
      [] v.tag = "Bool" -> {Ok(JBool(v.b))}
      [] v.tag = "String" -> {Ok(JString(v.t))}
      [] v.tag = "Null" -> {Ok(JNull)}
      [] v.tag = "Date" -> {Ok(JString(DateToString(v.dt)))}
      [] v.tag = "Uuid" -> {Ok(JString(UuidToString(v.u)))}
      [] v.tag = "Map" -> LowerEntries(v.m, EmptyObject)
      [] OTHER -> {Panic("not implemented")}

\* ------------------------------------------------------------------ Literal

Literal(lit, n, t, by, b) == [lit |-> lit, n |-> n, t |-> t, by |-> by, b |-> b]

LitInt(n) == Literal("Int", n, <<>>, <<>>, FALSE)
LitUInt(n) == Literal("UInt", n, <<>>, <<>>, FALSE)
LitDouble(t) == Literal("Double", 0, t, <<>>, FALSE)
LitString(t) == Literal("String", 0, t, <<>>, FALSE)
LitBytes(by) == Literal("Bytes", 0, <<>>, by, FALSE)
LitBool(b) == Literal("Bool", 0, <<>>, <<>>, b)
LitNull == Literal("Null", 0, <<>>, <<>>, FALSE)

IsDigit(c) == \E i \in 1..10 : DigitChars[i] = c
DigitValue(c) == (CHOOSE i \in 1..10 : DigitChars[i] = c) - 1

\* The number a text of digits denotes.
RECURSIVE DigitsToNat(_)
DigitsToNat(t) ==
    IF t = <<>> THEN 0
    ELSE 10 * DigitsToNat(SubSeq(t, 1, Len(t) - 1)) + DigitValue(t[Len(t)])

\* str::parse::<Decimal>: an optional sign, then digits with at most one
\* point and at least one digit; anything else (an exponent, a letter, the
\* empty text) is an error.  The scale is the number of digits after the point.
ParseDecimal(t) ==
    LET signed == t # <<>> /\ t[1] \in {"-", "+"}
        body == IF signed THEN SubSeq(t, 2, Len(t)) ELSE t
        points == {i \in 1..Len(body) : body[i] = "."}
        digits == SelectSeq(body, IsDigit)
        scale == IF points = {} THEN 0
                 ELSE Len(body) - (CHOOSE i \in points : TRUE)
        wellFormed == /\ \A i \in 1..Len(body) : IsDigit(body[i]) \/ body[i] = "."
                      /\ Cardinality(points) <= 1
                      /\ digits # <<>>
        mag == DigitsToNat(digits)
    IN  IF wellFormed
        THEN Ok(Dec(IF signed /\ t[1] = "-" THEN -mag ELSE mag, scale))
        ELSE [kind |-> "Err"]

\* From<&Literal> for CelValue: a value, or the panic of expect().
FromLiteral(l) ==
    CASE l.lit = "Int" -> Ok(ValInt(l.n))
      [] l.lit = "UInt" -> Ok(ValUInt(l.n))
      [] l.lit = "Double" ->
            LET d == ParseDecimal(l.t)
            IN  IF IsOk(d) THEN Ok(ValDouble(d.val))
                ELSE Panic("Couldn't parse Decimal")
      [] l.lit = "String" -> Ok(ValString(l.t))
      [] l.lit = "Bytes" -> Ok(ValBytes(l.by))
      [] l.lit = "Bool" -> Ok(ValBool(l.b))
      [] l.lit = "Null" -> Ok(ValNull)

\* ------------------------------------------------------------ sampled inputs

U_nil == [i \in 1..32 |-> 0]
U_a == [i \in 1..32 |-> IF i <= 8 THEN 10 + (i % 6) ELSE i % 10]
B_one == <<1>>

InsertKeys == {KeyFromStr(T_age), KeyFromStr(T_name), KeyInt(1)}
GetKeys == InsertKeys \cup {KeyFromStr(T_missing), KeyUInt(1), KeyFromStr(T_one)}
InsertVals == {ValInt(30), ValString(T_Ada), ValBytes(B_one)}
I64Samples == {-1, 1, 30}
DecimalSamples == {Dec(1999, 2), Dec(-5, 1), Dec(10, 1)}
DateSamples == {NaiveDate(2023, 1, 5)}
StrSamples == {T_Ada, T_one}
Literals ==
    {LitInt(1), LitUInt(1), LitDouble(T_1999), LitDouble(T_neg05),
     LitDouble(T_1e5), LitDouble(T_empty), LitString(T_Ada), LitBytes(B_one),
     LitBool(TRUE), LitNull}
M_scenario ==
    CelMapInsert(CelMapInsert(CelMapNew, KeyFromStr(T_age), FromI64(30)),
                 KeyFromStr(T_name), FromStr(T_Ada))
M_bytes == CelMapInsert(CelMapNew, KeyFromStr(T_name), ValBytes(B_one))
M_nested == CelMapInsert(CelMapNew, KeyFromStr(T_age), FromCelMap(M_bytes))
M_intkey == CelMapInsert(CelMapNew, KeyInt(1), FromI64(30))
MapSamples == {CelMapNew, M_scenario, M_bytes, M_nested, M_intkey}
\* Values built with the enum's constructors, for which the file has no From.
Constructed == {ValUuid(U_nil), ValUuid(U_a), ValUInt(1), ValBool(FALSE)}

\* ------------------------------------------------------------ state machine

NoKey == KeyInt(0)
Unit == [kind |-> "Unit"]
\* insert returns nothing; replaced notes whether an entry was overwritten.
Inserted(replaced) == [kind |-> "Unit", replaced |-> replaced]
Out(op, key, res) == [op |-> op, key |-> key, res |-> res]
NoHist == [x \in {} |-> ValNull]
NotLifted == [ty |-> "none", n |-> 0, d |-> NoDec, dt |-> NoDate, t |-> <<>>]

\* A panic ends the process: no operation follows it.
Alive == out.res.kind # "Panic"

\* inner is the map under construction; owned is FALSE once From<CelMap> has
\* taken it from its builder, until the next CelMap::new().
Owned == owned

Init ==
    /\ inner = CelMapNew
    /\ owned = TRUE
    /\ hist = NoHist
    /\ val = ValNull
    /\ lifted = NotLifted
    /\ out = Out("new", NoKey, Unit)

\* CelMap::new() for the next map, once the previous one was wrapped.
New ==
    /\ Alive /\ ~Owned
    /\ inner' = CelMapNew
    /\ owned' = TRUE
    /\ hist' = NoHist
    /\ out' = Out("new", NoKey, Unit)
    /\ UNCHANGED <<val, lifted>>

\* m.insert(k, v); v is a sampled value or a clone of the current map value.
Insert(k, v) ==
    /\ Alive /\ Owned
    /\ SizeOfEntries(CelMapInsert(inner, k, v)) + Size(val) <= MaxEntries
    /\ inner' = CelMapInsert(inner, k, v)
    /\ hist' = [x \in DOMAIN hist \cup {k} |-> IF x = k THEN v ELSE hist[x]]
    /\ out' = Out("insert", k, Inserted(k \in DOMAIN hist))
    /\ UNCHANGED <<owned, val, lifted>>

\* m.get(k)
Get(k) ==
    /\ Alive /\ Owned
    /\ out' = Out("get", k, Ok(CelMapGet(inner, k)))
    /\ UNCHANGED <<inner, owned, hist, val, lifted>>

\* CelValue::from(m)
Wrap ==
    /\ Alive /\ Owned
    /\ val' = FromCelMap(inner)
    /\ inner' = NoEntries
    /\ owned' = FALSE
    /\ lifted' = NotLifted
    /\ hist' = NoHist
    /\ out' = Out("from_map", NoKey, Unit)

LiftI64(i) ==
    /\ Alive
    /\ val' = FromI64(i)
    /\ lifted' = [NotLifted EXCEPT !.ty = "i64", !.n = i]
    /\ out' = Out("from_i64", NoKey, Unit)
    /\ UNCHANGED <<inner, owned, hist>>

LiftDecimal(d) ==
    /\ Alive
    /\ val' = FromDecimal(d)
    /\ lifted' = [NotLifted EXCEPT !.ty = "Decimal", !.d = d]
    /\ out' = Out("from_decimal", NoKey, Unit)
    /\ UNCHANGED <<inner, owned, hist>>

LiftDate(d) ==
    /\ Alive
    /\ val' = FromNaiveDate(d)
    /\ lifted' = [NotLifted EXCEPT !.ty = "NaiveDate", !.dt = d]
    /\ out' = Out("from_date", NoKey, Unit)
    /\ UNCHANGED <<inner, owned, hist>>

LiftStr(s) ==
    /\ Alive
    /\ val' = FromStr(s)
    /\ lifted' = [NotLifted EXCEPT !.ty = "str", !.t = s]
    /\ out' = Out("from_str", NoKey, Unit)
    /\ UNCHANGED <<inner, owned, hist>>

\* CelValue::Uuid(u) and the other variants written with their constructor.
Construct(v) ==
    /\ Alive
    /\ val' = v
    /\ lifted' = NotLifted
    /\ out' = Out("construct", NoKey, Unit)
    /\ UNCHANGED <<inner, owned, hist>>

\* CelValue::from(&literal): the value, or the process panics.
ConvertLiteral(l) ==
    /\ Alive
    /\ LET r == FromLiteral(l)
       IN  /\ val' = IF IsOk(r) THEN r.val ELSE val
           /\ out' = Out("from_literal", NoKey, IF IsOk(r) THEN Unit ELSE r)
    /\ lifted' = NotLifted
    /\ UNCHANGED <<inner, owned, hist>>

\* One of the fallible extractions applied to the current value.
Extract(op, r) ==
    /\ Alive
    /\ out' = Out(op, NoKey, r)
    /\ UNCHANGED <<inner, owned, hist, val, lifted>>

ExtractBool == Extract("try_bool", TryBool(val))
ExtractRcString == Extract("try_rc_string", TryIntoRcString(val))
ExtractString == Extract("try_string", TryIntoString(val))
ExtractDate == Extract("try_date", TryIntoNaiveDate(val))
ExtractUuid == Extract("try_uuid", TryIntoUuid(val))
ExtractDecimal == Extract("try_decimal", TryIntoDecimal(val))
ExtractI64 == Extract("try_i64", TryIntoI64(val))

\* serde_json::Value::try_from(val.clone()): one of the outcomes the
\* iteration order allows.
Lower ==
    /\ Alive
    /\ \E r \in TryIntoJson(val) : out' = Out("lower", NoKey, r)
    /\ UNCHANGED <<inner, owned, hist, val, lifted>>

\* m.get(k) on the map a Map value shares (through its Rc).
GetField(k) ==
    /\ Alive
    /\ val.tag = "Map"
    /\ val' = CelMapGet(val.m, k)
    /\ lifted' = NotLifted
    /\ out' = Out("get_field", k, Unit)
    /\ UNCHANGED <<inner, owned, hist>>

\* A map built by CelMap::new(), inserts and From<CelMap>, in one step.
BuildMap(m) ==
    /\ Alive
    /\ val' = FromCelMap(m)
    /\ lifted' = NotLifted
    /\ out' = Out("from_map", NoKey, Unit)
    /\ UNCHANGED <<inner, owned, hist>>

\* The life of a map: built by inserts, read by get, wrapped into a value,
\* nested into the next map, lowered.
Next ==
    \/ New
    \/ \E k \in InsertKeys :
          \E v \in InsertVals \cup (IF val.tag = "Map" THEN {val} ELSE {}) :
             Insert(k, v)
    \/ \E k \in GetKeys : Get(k)
    \/ Wrap
    \/ Lower

Spec == Init /\ [][Next]_vars

\* The conversions of single values: lifted, constructed or converted from a
\* literal, then extracted or lowered.
ConvNext ==
    \/ \E i \in I64Samples : LiftI64(i)
    \/ \E d \in DecimalSamples : LiftDecimal(d)
    \/ \E d \in DateSamples : LiftDate(d)
    \/ \E s \in StrSamples : LiftStr(s)
    \/ \E v \in Constructed : Construct(v)
    \/ \E m \in MapSamples : BuildMap(m)
    \/ \E k \in GetKeys : GetField(k)
    \/ \E l \in Literals : ConvertLiteral(l)
    \/ ExtractBool
    \/ ExtractRcString
    \/ ExtractString
    \/ ExtractDate
    \/ ExtractUuid
    \/ ExtractDecimal
    \/ ExtractI64
    \/ Lower

ConvSpec == Init /\ [][ConvNext]_vars

\* ------------------------------------------------------------------- claims

\* What the inserts made so far say get(k) must return.
LastInserted(k) == IF k \in DOMAIN hist THEN hist[k] ELSE ValNull

\* C1: on a map built from CelMap::new() by inserts, get(k) never fails and
\* returns the value of the most recent insert under a key equal to k, or
\* Null when there was none; so an insert overwrites the entry of its key
\* and changes the result of get for no other key.
C1_GetReturnsLastInsert ==
    /\ owned => \A k \in GetKeys : CelMapGet(inner, k) = LastInserted(k)
    /\ out.op = "get" =>
          /\ IsOk(out.res)
          /\ out.res.val = LastInserted(out.key)

\* C1 witness: an insert has just overwritten an entry, another key is held
\* too, and a key never inserted is absent.
C1_Witness ==
    /\ owned
    /\ out.op = "insert" /\ out.res.replaced
    /\ Cardinality(DOMAIN hist) >= 2
    /\ CelMapGet(inner, out.key) = hist[out.key]
    /\ CelMapGet(inner, KeyFromStr(T_missing)) = ValNull

KeySet(m) == {e.k : e \in m}

\* Same key set and pairwise equal values.
SameEntries(a, b) ==
    /\ KeySet(a) = KeySet(b)
    /\ \A e \in a : \A f \in b : e.k = f.k => e.v = f.v

CrossVariantKeys == {KeyUInt(1), KeyFromStr(T_one)}

\* C9: equality is structural and never crosses variants: Int(n) equals
\* neither UInt(n) nor Double(n); two Map values are equal iff they hold the
\* same key set with pairwise equal values; and an insert under
\* CelKey::Int(1) is not seen by get with CelKey::UInt(1) or
\* CelKey::String("1").
C9_EqualityIsStructural ==
    /\ \A n \in I64Samples :
          /\ CelValueEq(ValInt(n), ValInt(n))
          /\ ~CelValueEq(ValInt(n), ValUInt(n))
          /\ ~CelValueEq(ValInt(n), ValDouble(DecimalFromInt(n)))
    /\ \A a \in CrossVariantKeys \cup {KeyInt(1)} :
          \A b \in CrossVariantKeys \cup {KeyInt(1)} :
             CelKeyEq(a, b) <=> (a.tag = b.tag /\ a.n = b.n /\ a.t = b.t)
    /\ (owned /\ val.tag = "Map") =>
          (CelValueEq(val, FromCelMap(inner)) <=> SameEntries(val.m, inner))
    /\ owned => \A k \in CrossVariantKeys : CelMapGet(inner, k) = ValNull
    /\ (out.op = "get" /\ out.key \in CrossVariantKeys) =>
          out.res.val = ValNull

\* C9 witness: a value is stored under Int(1), get with UInt(1) has returned
\* Null, and the builder holds a non-empty map equal to the wrapped one.
C9_Witness ==
    /\ owned
    /\ KeyInt(1) \in DOMAIN hist
    /\ out.op = "get" /\ out.key = KeyUInt(1) /\ out.res.val = ValNull
    /\ val.tag = "Map" /\ inner # {} /\ CelValueEq(val, FromCelMap(inner))

\* No Bytes value, at any depth: every value has a lowering.
RECURSIVE NoBytes(_)
NoBytes(v) ==
    /\ v.tag # "Bytes"
    /\ v.tag = "Map" => \A e \in v.m : NoBytes(e.v)

\* C3: lowering a Map succeeds whatever the variants of its keys: a map
\* with Int, UInt or Bool keys lowers to an object, provided every value
\* lowers.
C3_AnyKeyMapLowers ==
    (out.op = "lower" /\ val.tag = "Map" /\ NoBytes(val)) =>
        /\ IsOk(out.res)
        /\ out.res.val.jt = "Object"
        /\ Cardinality(DOMAIN out.res.val.o) = Cardinality(val.m)

\* C4: lowering a value always returns (Ok or Err) and never aborts the
\* process, also for a Bytes value at top level or nested inside a Map.
C4_LoweringNeverPanics ==
    out.op = "lower" => ~IsPanic(out.res)

\* C5: converting a literal never aborts: an unparsable decimal text is a
\* recoverable error, every other literal yields a value.
C5_LiteralNeverPanics ==
    out.op = "from_literal" => ~IsPanic(out.res)

\* The errors the entries of a map return: from the conversion of a key to
\* text, or from the lowering of a value.
EntryErrors(m) ==
    {KeyTryIntoString(e.k) : e \in {x \in m : IsErr(KeyTryIntoString(x.k))}}
        \cup UNION {{r \in TryIntoJson(e.v) : IsErr(r)} : e \in m}

\* C10: lowering a Map is all-or-nothing: if the conversion of any key or
\* the lowering of any value returns an error, the lowering returns that
\* error; if it succeeds, the object has exactly one member per entry,
\* named by the key's text and holding the lowering of the entry's value.
C10_MapLoweringAllOrNothing ==
    (out.op = "lower" /\ val.tag = "Map") =>
        /\ EntryErrors(val.m) # {} => out.res \in EntryErrors(val.m)
        /\ IsOk(out.res) =>
              /\ out.res.val.jt = "Object"
              /\ DOMAIN out.res.val.o = {e.k.t : e \in val.m}
              /\ Cardinality(DOMAIN out.res.val.o) = Cardinality(val.m)
              /\ \A e \in val.m : Ok(out.res.val.o[e.k.t]) \in TryIntoJson(e.v)

\* An extraction whose only target is one variant: a mismatch is
\* BadType(target, variant), a match returns the payload.
ExactExtraction(op, target, payload) ==
    out.op = op =>
        /\ val.tag # target => out.res = BadType(target, val.tag)
        /\ val.tag = target => (IsOk(out.res) /\ out.res.val = payload)

\* The five extractions with a single target variant.
ExactExtractions ==
    /\ ExactExtraction("try_bool", "Bool", val.b)
    /\ ExactExtraction("try_rc_string", "String", val.t)
    /\ ExactExtraction("try_string", "String", val.t)
    /\ ExactExtraction("try_date", "Date", val.dt)
    /\ ExactExtraction("try_uuid", "Uuid", val.u)

\* C2 as stated: every extraction, the one into Decimal included, fails with
\* BadType(target, variant) on any variant other than its target.
C2_Original ==
    /\ ExactExtractions
    /\ ExactExtraction("try_decimal", "Double", val.d)

\* C2: try_bool and the extractions into Rc<String>, String, NaiveDate and
\* Uuid fail with BadType(target tag, value's tag) on every other variant
\* and return the payload unchanged on their own; the extraction into
\* Decimal returns the payload of a Double unchanged, widens Int and UInt,
\* and fails with BadType(Double, value's tag) on every other variant.
C2_ExtractionsMatchOrBadType ==
    /\ ExactExtractions
    /\ out.op = "try_decimal" =>
          /\ val.tag = "Double" => (IsOk(out.res) /\ out.res.val = val.d)
          /\ val.tag \in {"Int", "UInt"} =>
                (IsOk(out.res) /\ out.res.val.m = val.n /\ out.res.val.s = 0)
          /\ val.tag \notin {"Double", "Int", "UInt"} =>
                out.res = BadType("Double", val.tag)

\* C2 witness: try_bool on Int(1) has failed with BadType{Bool, Int}.
C2_Witness ==
    /\ val = ValInt(1)
    /\ out.op = "try_bool"
    /\ out.res = BadType("Bool", "Int")

\* C6: a Decimal extracted from Int(n) or UInt(n) is exactly the integer n;
\* an integer extracted from a Double fails with BadType; a Decimal
\* extracted from a variant other than Int, UInt, Double fails with
\* BadType(Double, value's tag).
C6_WideningOneWay ==
    /\ (out.op = "try_decimal" /\ val.tag \in {"Int", "UInt"}) =>
          /\ IsOk(out.res)
          /\ out.res.val.m = val.n * Pow10(out.res.val.s)
    /\ (out.op = "try_i64" /\ val.tag = "Double") =>
          (IsErr(out.res) /\ out.res.actual = "Double")
    /\ (out.op = "try_decimal" /\ val.tag \notin {"Int", "UInt", "Double"}) =>
          out.res = BadType("Double", val.tag)

\* C6 witness: a Decimal was extracted from UInt(1).
C6_Witness ==
    /\ val = ValUInt(1)
    /\ out.op = "try_decimal"
    /\ IsOk(out.res) /\ out.res.val.m = 1

\* C7: lifting a native value and lowering the result gives the value back:
\* &str through String, i64 through Decimal (the widening target), Decimal
\* and NaiveDate through themselves.
C7_RoundTrip ==
    /\ (lifted.ty = "str" /\ out.op = "try_string") =>
          (IsOk(out.res) /\ out.res.val = lifted.t)
    /\ (lifted.ty = "i64" /\ out.op = "try_decimal") =>
          (IsOk(out.res) /\ out.res.val.m = lifted.n * Pow10(out.res.val.s))
    /\ (lifted.ty = "Decimal" /\ out.op = "try_decimal") =>
          (IsOk(out.res) /\ out.res.val = lifted.d)
    /\ (lifted.ty = "NaiveDate" /\ out.op = "try_date") =>
          (IsOk(out.res) /\ out.res.val = lifted.dt)

\* C7 witness: the negative integer -1 came back through Decimal.
C7_Witness ==
    /\ lifted.ty = "i64" /\ lifted.n = -1
    /\ out.op = "try_decimal"
    /\ IsOk(out.res) /\ out.res.val.m = -1

T_date == <<"2", "0", "2", "3", "-", "0", "1", "-", "0", "5">>
T_nil == [i \in 1..36 |-> IF i \in {9, 14, 19, 24} THEN "-" ELSE "0"]
ScenarioObject ==
    [x \in {T_age, T_name} |-> IF x = T_age THEN JNumber(30) ELSE JString(T_Ada)]

\* C8: Int, UInt and Bool lower to the JSON number / boolean of the same
\* value; Double, Date and Uuid to a JSON string of their canonical text
\* (Double(19.99) to "19.99"); String to a JSON string; Null to null; the
\* map {"age": Int(30), "name": String("Ada")} to the object
\* {"age": 30, "name": "Ada"}, and get("missing") on it returns Null.
C8_LoweringPerVariant ==
    /\ out.op = "lower" =>
          /\ val.tag \in {"Int", "UInt"} => out.res = Ok(JNumber(val.n))
          /\ val.tag = "Bool" => out.res = Ok(JBool(val.b))
          /\ val.tag = "String" => out.res = Ok(JString(val.t))
          /\ val.tag = "Null" => out.res = Ok(JNull)
          /\ val.tag \in {"Double", "Date", "Uuid"} =>
                (IsOk(out.res) /\ out.res.val.jt = "String")
          /\ val.tag = "Double" => ParseDecimal(out.res.val.s) = Ok(val.d)
          /\ val = ValDouble(Dec(1999, 2)) => out.res.val.s = T_1999
          /\ val = ValDouble(Dec(-5, 1)) => out.res.val.s = T_neg05
          /\ val = ValDate(NaiveDate(2023, 1, 5)) => out.res.val.s = T_date
          /\ val = ValUuid(U_nil) => out.res.val.s = T_nil
          /\ val.tag = "Uuid" => Len(out.res.val.s) = 36
          /\ val = ValMap(M_scenario) => out.res = Ok(JObject(ScenarioObject))
    /\ (out.op = "get_field" /\ out.key = KeyFromStr(T_missing)) => val = ValNull

\* C8 witness: Double(19.99) has been lowered to the text "19.99".
C8_Witness ==
    /\ val = ValDouble(Dec(1999, 2))
    /\ out.op = "lower"
    /\ out.res = Ok(JString(T_1999))

====
